---- MODULE Spec2Model ----
(***************************************************************************)
(* A model of reference/solution.py: the ServiceAgent of lab 2.6.          *)
(*                                                                         *)
(* The agent seeds a global-data dictionary at construction and registers  *)
(* six tool handlers.  A handler receives its arguments and raw_data (the  *)
(* request, whose "global_data" entry is the session's current global      *)
(* data) and returns a SwaigFunctionResult: a response text and, possibly, *)
(* an update_global_data action that the host merges key-wise into the     *)
(* session's global data before the next call.                             *)
(*                                                                         *)
(* Representation.  A Python dict is a function whose DOMAIN is the set of *)
(* its keys.  A text built by an f-string or by strftime/isoformat is the  *)
(* sequence of its pieces: a literal piece or an interpolated str value is *)
(* one token, a formatted number is one token per digit.                   *)
(***************************************************************************)
EXTENDS Integers, Sequences, FiniteSets, TLC

VARIABLES
    clock,              \* what datetime.now() returns at this instant
    ticks,              \* half seconds elapsed since construction
    hour,               \* the local `hour` read by _setup_global_data
    agent_global_data,  \* the agent's own global data (self.get_global_data())
    global_data,        \* the session's global data, held by the host
    prev_global_data,   \* the session's global data before the last call
    call,               \* the last tool call: its name, its args, its instant
    raw_data,           \* the raw_data of the last call, as the handler left it
    result,             \* the SwaigFunctionResult the last call returned
    ticket_log,         \* history: the last create_ticket call, the number
                        \* of add_ticket_note calls that added a note since,
                        \* and every ticket_id created with its clock second
    session_log         \* history: the phone of the last identify_customer
                        \* call and the patch of the last escalate_ticket
                        \* call that returned one

vars == <<clock, ticks, hour, agent_global_data, global_data,
          prev_global_data, call, raw_data, result, ticket_log, session_log>>

----------------------------------------------------------------------------
(* Bounds of the model *)

\* the clock advances at most this many half seconds after construction
MaxTicks == 1

\* add_ticket_note is called on a ticket that has fewer notes than this
MaxNotes == 2

----------------------------------------------------------------------------
(* Python dictionaries *)

EmptyDict == [k \in {} |-> TRUE]

\* d.get(k, default)
Get(d, k, default) == IF k \in DOMAIN d THEN d[k] ELSE default

\* dict.update / the host's key-wise merge: the keys of patch overwrite
Update(d, patch) == patch @@ d

----------------------------------------------------------------------------
(* Texts *)

DigitChar(d) ==
    CASE d = 0 -> "0" [] d = 1 -> "1" [] d = 2 -> "2" [] d = 3 -> "3"
      [] d = 4 -> "4" [] d = 5 -> "5" [] d = 6 -> "6" [] d = 7 -> "7"
      [] d = 8 -> "8" [] d = 9 -> "9"

\* str(n) of a natural number: its decimal digits, no leading zero
RECURSIVE Str(_)
Str(n) == IF n < 10 THEN <<DigitChar(n)>>
          ELSE Str(n \div 10) \o <<DigitChar(n % 10)>>

RECURSIVE Zeros(_)
Zeros(k) == IF k <= 0 THEN <<>> ELSE <<"0">> \o Zeros(k - 1)

\* a number formatted with zero padding to at least w digits (%02d, %04d, %06d)
Pad(n, w) == Zeros(w - Len(Str(n))) \o Str(n)

----------------------------------------------------------------------------
(* The clock: datetime.now() *)

IsLeap(y) == (y % 4 = 0 /\ y % 100 # 0) \/ y % 400 = 0

DaysInMonth(y, m) ==
    IF m = 2 THEN (IF IsLeap(y) THEN 29 ELSE 28)
    ELSE IF m \in {4, 6, 9, 11} THEN 30 ELSE 31

\* the datetime half a second after t
HalfSecondLater(t) ==
    IF t.microsecond < 500000 THEN [t EXCEPT !.microsecond = @ + 500000]
    ELSE IF t.second < 59
         THEN [t EXCEPT !.microsecond = @ - 500000, !.second = @ + 1]
    ELSE IF t.minute < 59
         THEN [t EXCEPT !.microsecond = @ - 500000, !.second = 0,
                        !.minute = @ + 1]
    ELSE IF t.hour < 23
         THEN [t EXCEPT !.microsecond = @ - 500000, !.second = 0,
                        !.minute = 0, !.hour = @ + 1]
    ELSE IF t.day < DaysInMonth(t.year, t.month)
         THEN [t EXCEPT !.microsecond = @ - 500000, !.second = 0,
                        !.minute = 0, !.hour = 0, !.day = @ + 1]
    ELSE IF t.month < 12
         THEN [t EXCEPT !.microsecond = @ - 500000, !.second = 0,
                        !.minute = 0, !.hour = 0, !.day = 1, !.month = @ + 1]
    ELSE [t EXCEPT !.microsecond = @ - 500000, !.second = 0, !.minute = 0,
                   !.hour = 0, !.day = 1, !.month = 1, !.year = @ + 1]

\* mutant: the fields are written without zero padding
strftime_unpadded(t) ==
    Str(t.year) \o Str(t.month) \o Str(t.day)
      \o Str(t.hour) \o Str(t.minute) \o Str(t.second)

\* the reading t of the clock, to the second
SecondOf(t) == [t EXCEPT !.microsecond = 0]

\* mutant: the seconds are left out of the format
strftime_to_the_minute(t) ==
    Pad(t.year, 4) \o Pad(t.month, 2) \o Pad(t.day, 2)
      \o Pad(t.hour, 2) \o Pad(t.minute, 2)

\* t.strftime('%Y%m%d%H%M%S')
strftime(t) ==
    Pad(t.year, 4) \o Pad(t.month, 2) \o Pad(t.day, 2)
      \o Pad(t.hour, 2) \o Pad(t.minute, 2) \o Pad(t.second, 2)

\* t.isoformat(): the microseconds are left out when they are zero
isoformat(t) ==
    Pad(t.year, 4) \o <<"-">> \o Pad(t.month, 2) \o <<"-">> \o Pad(t.day, 2)
      \o <<"T">> \o Pad(t.hour, 2) \o <<":">> \o Pad(t.minute, 2)
      \o <<":">> \o Pad(t.second, 2)
      \o (IF t.microsecond = 0 THEN <<>>
          ELSE <<".">> \o Pad(t.microsecond, 6))

----------------------------------------------------------------------------
(* The host SDK's result object *)

\* SwaigFunctionResult(response): a response and no action
SwaigFunctionResult(response) == [response |-> response, action |-> <<>>]

\* res.update_global_data(data): one more action, asking the host to merge data
update_global_data(res, data) ==
    [res EXCEPT !.action = Append(@, [set_global_data |-> data])]

\* a handler that raises returns no result: the outcome of the call is the
\* exception, and there is no action for the host to apply
Raised(exception) == [raised |-> exception, action |-> <<>>]

\* the host applies the actions of a result to the session's global data
RECURSIVE ApplyActions(_, _)
ApplyActions(gd, actions) ==
    IF actions = <<>> THEN gd
    ELSE ApplyActions(Update(gd, Head(actions).set_global_data), Tail(actions))

----------------------------------------------------------------------------
(* ServiceAgent *)

CUSTOMERS ==
    [phone \in {"+15551234567", "+15559876543", "+15551112222"} |->
       CASE phone = "+15551234567" ->
              [id |-> "C001", name |-> "John Smith", tier |-> "gold"]
         [] phone = "+15559876543" ->
              [id |-> "C002", name |-> "Jane Doe", tier |-> "silver"]
         [] phone = "+15551112222" ->
              [id |-> "C003", name |-> "Bob Wilson", tier |-> "bronze"]]

\* mutant: noon still counts as morning
Greeting_noon_is_morning(h) ==
    IF h <= 12 THEN "Good morning"
    ELSE IF h < 17 THEN "Good afternoon" ELSE "Good evening"

\* the greeting chosen for the hour h
Greeting(h) ==
    IF h < 12 THEN "Good morning"
    ELSE IF h < 17 THEN "Good afternoon" ELSE "Good evening"

\* whether the hour h is within business hours
IsBusinessHours(h) == 9 <= h /\ h < 18

\* the dictionary _setup_global_data hands to set_global_data
SetupGlobalData(h) ==
    [k \in {"company_name", "support_email", "support_phone",
            "business_hours", "is_business_hours", "greeting"} |->
       CASE k = "company_name" -> "TechCorp"
         [] k = "support_email" -> "support@techcorp.com"
         [] k = "support_phone" -> "1-800-TECH"
         [] k = "business_hours" -> "9 AM to 6 PM EST"
         [] k = "is_business_hours" -> IsBusinessHours(h)
         [] k = "greeting" -> Greeting(h)]

----------------------------------------------------------------------------
(* The six tool handlers.  Each yields the SwaigFunctionResult it returns  *)
(* and raw_data as the call leaves it.  agd is the agent's own global data *)
(* (self.get_global_data()), now and later are the readings of             *)
(* datetime.now() the handler takes, in order.                             *)

\* `raw_data = raw_data or {}; global_data = raw_data.get("global_data", {})`
SnapshotOf(rd) == Get(rd, "global_data", EmptyDict)

\* mutant: the handlers do not look for a ticket
NoTicket_never(gd) == FALSE

\* `not ticket_id`: None (no such key) and the empty text are falsy
NoTicket(gd) == Get(gd, "ticket_id", <<>>) = <<>>

\* mutant: the tier is taken from the wrong field of the record
IdentifiedPatch_tier_from_name(customer) ==
    [k \in {"customer_id", "customer_name", "customer_tier", "identified"} |->
       CASE k = "customer_id" -> customer.id
         [] k = "customer_name" -> customer.name
         [] k = "customer_tier" -> customer.name
         [] k = "identified" -> TRUE]

\* mutant: the greeting is personalised in the global data
IdentifiedPatch_with_greeting(customer) ==
    [k \in {"customer_id", "customer_name", "customer_tier", "identified",
            "greeting"} |->
       CASE k = "customer_id" -> customer.id
         [] k = "customer_name" -> customer.name
         [] k = "customer_tier" -> customer.tier
         [] k = "identified" -> TRUE
         [] k = "greeting" -> "Hello"]

\* mutant: the tier is not written
IdentifiedPatch_without_tier(customer) ==
    [k \in {"customer_id", "customer_name", "identified"} |->
       CASE k = "customer_id" -> customer.id
         [] k = "customer_name" -> customer.name
         [] k = "identified" -> TRUE]

\* the dictionary identify_customer hands to update_global_data
IdentifiedPatch(customer) ==
    [k \in {"customer_id", "customer_name", "customer_tier", "identified"} |->
       CASE k = "customer_id" -> customer.id
         [] k = "customer_name" -> customer.name
         [] k = "customer_tier" -> customer.tier
         [] k = "identified" -> TRUE]

\* mutant: an unknown number resets the identification
NotRecognized_resets ==
    update_global_data(
      SwaigFunctionResult(
        <<"I don't recognize that number. Could you provide your account ID?">>),
      [k \in {"identified"} |-> FALSE])

\* what identify_customer returns when the lookup finds no customer
NotRecognized ==
    SwaigFunctionResult(
      <<"I don't recognize that number. Could you provide your account ID?">>)

identify_customer(args, rd, agd) ==
    LET phone == Get(args, "phone", "")
    IN  IF phone \in DOMAIN CUSTOMERS
        THEN LET customer == CUSTOMERS[phone]
                 greeting == Get(agd, "greeting", "Hello")
             IN  [result |->
                    update_global_data(
                      SwaigFunctionResult(
                        <<greeting, ", ", customer.name, "! ",
                          "I see you're a ", customer.tier,
                          " member. How can I help?">>),
                      IdentifiedPatch(customer)),
                  raw_data |-> rd]
        ELSE [result |-> NotRecognized, raw_data |-> rd]

\* mutant: the company data is read from the request, as the ticket handlers
\* read the global data
CompanyData_from_request(rd, agd) == SnapshotOf(rd)

\* `global_data = self.get_global_data()` of get_company_info
CompanyData(rd, agd) == agd

\* global_data['company_name'] and the like raise KeyError on a missing key
get_company_info(args, rd, agd) ==
    LET gd == CompanyData(rd, agd)
    IN  IF {"company_name", "business_hours", "support_email"}
              \subseteq DOMAIN gd
        THEN [result |->
                SwaigFunctionResult(
                  <<"You've reached ", gd["company_name"], ". ",
                    "Our hours are ", gd["business_hours"], ". ",
                    "Email us at ", gd["support_email"], ".">>),
              raw_data |-> rd]
        ELSE [result |-> Raised("KeyError"), raw_data |-> rd]

\* mutant: a new ticket starts out as not escalated
create_ticket_not_escalated(args, rd, now, later) ==
    LET issue == Get(args, "issue", "")
        gd == SnapshotOf(rd)
        customer_name == Get(gd, "customer_name", "Customer")
        ticket_id == <<"TKT-">> \o strftime(now)
    IN  [result |->
           update_global_data(
             SwaigFunctionResult(
               <<"I've created ticket ">> \o ticket_id
                 \o <<" for you, ", customer_name, ". ",
                      "Is there anything else about this issue?">>),
             [k \in {"ticket_id", "ticket_issue", "ticket_notes",
                     "ticket_created", "escalated"} |->
                CASE k = "ticket_id" -> ticket_id
                  [] k = "ticket_issue" -> issue
                  [] k = "ticket_notes" -> <<>>
                  [] k = "ticket_created" -> isoformat(later)
                  [] k = "escalated" -> FALSE]),
         raw_data |-> rd]

create_ticket(args, rd, now, later) ==
    LET issue == Get(args, "issue", "")
        gd == SnapshotOf(rd)
        customer_name == Get(gd, "customer_name", "Customer")
        ticket_id == <<"TKT-">> \o strftime(now)
    IN  [result |->
           update_global_data(
             SwaigFunctionResult(
               <<"I've created ticket ">> \o ticket_id
                 \o <<" for you, ", customer_name, ". ",
                      "Is there anything else about this issue?">>),
             [k \in {"ticket_id", "ticket_issue", "ticket_notes",
                     "ticket_created"} |->
                CASE k = "ticket_id" -> ticket_id
                  [] k = "ticket_issue" -> issue
                  [] k = "ticket_notes" -> <<>>
                  [] k = "ticket_created" -> isoformat(later)]),
         raw_data |-> rd]

\* mutant: the new note is put in front
NotesAppend_in_front(notes, entry) == <<entry>> \o notes

\* mutant: the new note replaces the notes
NotesAppend_replacing(notes, entry) == <<entry>>

\* notes.append(entry)
NotesAppend(notes, entry) == Append(notes, entry)

\* `notes` is the list held in the snapshot when the snapshot has the key, and
\* a new list otherwise: notes.append changes the snapshot's list in place
add_ticket_note(args, rd, now) ==
    LET note == Get(args, "note", "")
        gd == SnapshotOf(rd)
        ticket_id == Get(gd, "ticket_id", <<>>)
        notes == Get(gd, "ticket_notes", <<>>)
        appended ==
            NotesAppend(notes, [time |-> isoformat(now), content |-> note])
    IN  IF NoTicket(gd)
        THEN [result |->
                SwaigFunctionResult(
                  <<"No ticket found. Would you like me to create one?">>),
              raw_data |-> rd]
        ELSE [result |->
                update_global_data(
                  SwaigFunctionResult(
                    <<"Added note to ticket ">> \o ticket_id
                      \o <<". ", "Total notes: ">> \o Str(Len(appended))
                      \o <<".">>),
                  [k \in {"ticket_notes"} |-> appended]),
              raw_data |->
                IF "ticket_notes" \in DOMAIN gd
                THEN [rd EXCEPT !["global_data"]["ticket_notes"] = appended]
                ELSE rd]

\* mutant: the notes are read under the wrong key
SummaryNotes_wrong_key(gd) == Get(gd, "notes", <<>>)

\* `notes = global_data.get("ticket_notes", [])` of get_ticket_summary
SummaryNotes(gd) == Get(gd, "ticket_notes", <<>>)

\* mutant: the summary records in the global data that it was asked for
get_ticket_summary_recording(args, rd) ==
    LET gd == SnapshotOf(rd)
        ticket_id == Get(gd, "ticket_id", <<>>)
        issue == Get(gd, "ticket_issue", "No issue recorded")
        notes == SummaryNotes(gd)
        customer_name == Get(gd, "customer_name", "Customer")
    IN  IF NoTicket(gd)
        THEN [result |-> SwaigFunctionResult(<<"No active ticket.">>),
              raw_data |-> rd]
        ELSE [result |->
                update_global_data(
                  SwaigFunctionResult(
                    <<"Ticket ">> \o ticket_id
                      \o <<" for ", customer_name, ": ", issue, ". ">>
                      \o Str(Len(notes)) \o <<" note(s) added.">>),
                  [k \in {"summary_requested"} |-> TRUE]),
              raw_data |-> rd]

get_ticket_summary(args, rd) ==
    LET gd == SnapshotOf(rd)
        ticket_id == Get(gd, "ticket_id", <<>>)
        issue == Get(gd, "ticket_issue", "No issue recorded")
        notes == SummaryNotes(gd)
        customer_name == Get(gd, "customer_name", "Customer")
    IN  IF NoTicket(gd)
        THEN [result |-> SwaigFunctionResult(<<"No active ticket.">>),
              raw_data |-> rd]
        ELSE [result |->
                SwaigFunctionResult(
                  <<"Ticket ">> \o ticket_id
                    \o <<" for ", customer_name, ": ", issue, ". ">>
                    \o Str(Len(notes)) \o <<" note(s) added.">>),
              raw_data |-> rd]

\* mutant: the ticket is escalated without looking for a ticket_id
escalate_ticket_unchecked(args, rd, now) ==
    LET reason == Get(args, "reason", "")
        gd == SnapshotOf(rd)
        ticket_id == Get(gd, "ticket_id", <<>>)
    IN  [result |->
           update_global_data(
             SwaigFunctionResult(
               <<"Ticket ">> \o ticket_id \o <<" has been escalated. ",
                 "A supervisor will contact you within 2 hours.">>),
             [k \in {"escalated", "escalation_reason",
                     "escalation_time"} |->
                CASE k = "escalated" -> TRUE
                  [] k = "escalation_reason" -> reason
                  [] k = "escalation_time" -> isoformat(now)]),
         raw_data |-> rd]

\* mutant: escalating hands the ticket over with an empty list of notes
escalate_ticket_clearing_notes(args, rd, now) ==
    LET reason == Get(args, "reason", "")
        gd == SnapshotOf(rd)
        ticket_id == Get(gd, "ticket_id", <<>>)
    IN  IF NoTicket(gd)
        THEN [result |->
                SwaigFunctionResult(
                  <<"No ticket to escalate. Let me create one first.">>),
              raw_data |-> rd]
        ELSE [result |->
                update_global_data(
                  SwaigFunctionResult(
                    <<"Ticket ">> \o ticket_id \o <<" has been escalated. ",
                      "A supervisor will contact you within 2 hours.">>),
                  [k \in {"escalated", "escalation_reason",
                          "escalation_time", "ticket_notes"} |->
                     CASE k = "escalated" -> TRUE
                       [] k = "escalation_reason" -> reason
                       [] k = "escalation_time" -> isoformat(now)
                       [] k = "ticket_notes" -> <<>>]),
              raw_data |-> rd]

escalate_ticket(args, rd, now) ==
    LET reason == Get(args, "reason", "")
        gd == SnapshotOf(rd)
        ticket_id == Get(gd, "ticket_id", <<>>)
    IN  IF NoTicket(gd)
        THEN [result |->
                SwaigFunctionResult(
                  <<"No ticket to escalate. Let me create one first.">>),
              raw_data |-> rd]
        ELSE [result |->
                update_global_data(
                  SwaigFunctionResult(
                    <<"Ticket ">> \o ticket_id \o <<" has been escalated. ",
                      "A supervisor will contact you within 2 hours.">>),
                  [k \in {"escalated", "escalation_reason",
                          "escalation_time"} |->
                     CASE k = "escalated" -> TRUE
                       [] k = "escalation_reason" -> reason
                       [] k = "escalation_time" -> isoformat(now)]),
              raw_data |-> rd]

----------------------------------------------------------------------------
(* The session *)

\* the instants at which the agent may be constructed
StartTimes ==
    { [year |-> 1999, month |-> 12, day |-> 31, hour |-> 23, minute |-> 59,
       second |-> 59, microsecond |-> 500000] }

\* one instant in every hour of a day
AnyHourTimes ==
    { [year |-> 2025, month |-> 6, day |-> 30, hour |-> h, minute |-> 59,
       second |-> 59, microsecond |-> 500000] : h \in 0..23 }

\* the argument dictionaries the host passes: the declared parameter with a
\* value
Args(key, values) == {[k \in {key} |-> v] : v \in values}

\* a call may also come with no argument at all
PhoneArgs == Args("phone", DOMAIN CUSTOMERS \cup {"+15550000000"})
               \cup {EmptyDict}
IssueArgs == Args("issue", {"login failure"}) \cup {EmptyDict}
NoteArgs == Args("note", {"A", "B"})
ReasonArgs == Args("reason", {"unresolved after 3 days"}) \cup {EmptyDict}

\* the state after ServiceAgent() at the instant t
Constructed(t) ==
    /\ clock = t
    /\ ticks = 0
    /\ hour = t.hour
    /\ agent_global_data = SetupGlobalData(t.hour)
    /\ global_data = SetupGlobalData(t.hour)
    /\ prev_global_data = SetupGlobalData(t.hour)
    /\ call = [name |-> "", args |-> EmptyDict, at |-> t]
    /\ raw_data = EmptyDict
    /\ result = SwaigFunctionResult(<<>>)
    /\ ticket_log = [created |-> FALSE, ticket_id |-> <<>>, issue |-> "",
                     added |-> 0, tickets |-> {}]
    /\ session_log = [phone |-> "", escalation |-> EmptyDict]

Init == \E t \in StartTimes : Constructed(t)

InitAnyHour == \E t \in AnyHourTimes : Constructed(t)

\* the host's request for a call made now
Request == [k \in {"global_data"} |-> global_data]

\* the host serves one tool call: it runs the handler on the request, then
\* merges the actions of the result into the session's global data
Serve(name, args, out) ==
    /\ call' = [name |-> name, args |-> args, at |-> clock]
    /\ raw_data' = out.raw_data
    /\ result' = out.result
    /\ prev_global_data' = global_data
    /\ global_data' = ApplyActions(global_data, out.result.action)
    /\ ticket_log' =
         IF name = "create_ticket"
         THEN [created |-> TRUE,
               ticket_id |->
                 out.result.action[1].set_global_data["ticket_id"],
               issue |-> Get(args, "issue", ""),
               added |-> 0,
               tickets |->
                 ticket_log.tickets
                   \cup {[second |-> SecondOf(clock),
                          ticket_id |->
                            out.result.action[1].set_global_data["ticket_id"]]}]
         ELSE IF name = "add_ticket_note" /\ out.result.action # <<>>
         THEN [ticket_log EXCEPT !.added = @ + 1]
         ELSE ticket_log
    /\ session_log' =
         IF name = "identify_customer" /\ out.result.action # <<>>
         THEN [session_log EXCEPT !.phone = Get(args, "phone", "")]
         ELSE IF name = "escalate_ticket" /\ out.result.action # <<>>
         THEN [session_log EXCEPT
                 !.escalation = out.result.action[1].set_global_data]
         ELSE session_log
    /\ UNCHANGED <<hour, agent_global_data>>

Tick ==
    /\ ticks < MaxTicks
    /\ clock' = HalfSecondLater(clock)
    /\ ticks' = ticks + 1
    /\ UNCHANGED <<hour, agent_global_data, global_data, prev_global_data,
                   call, raw_data, result, ticket_log, session_log>>

IdentifyCustomer ==
    \E args \in PhoneArgs :
        /\ Serve("identify_customer", args,
                 identify_customer(args, Request, agent_global_data))
        /\ UNCHANGED <<clock, ticks>>

GetCompanyInfo ==
    /\ Serve("get_company_info", EmptyDict,
             get_company_info(EmptyDict, Request, agent_global_data))
    /\ UNCHANGED <<clock, ticks>>

\* the two readings of datetime.now() are d half seconds apart
CreateTicket ==
    \E args \in IssueArgs, d \in {0, 1} :
        /\ ticks + d <= MaxTicks
        /\ LET later == IF d = 0 THEN clock ELSE HalfSecondLater(clock)
           IN  /\ Serve("create_ticket", args,
                        create_ticket(args, Request, clock, later))
               /\ clock' = later
               /\ ticks' = ticks + d

AddTicketNote ==
    \E args \in NoteArgs :
        /\ Len(Get(global_data, "ticket_notes", <<>>)) < MaxNotes
        /\ Serve("add_ticket_note", args,
                 add_ticket_note(args, Request, clock))
        /\ UNCHANGED <<clock, ticks>>

GetTicketSummary ==
    /\ Serve("get_ticket_summary", EmptyDict,
             get_ticket_summary(EmptyDict, Request))
    /\ UNCHANGED <<clock, ticks>>

EscalateTicket ==
    \E args \in ReasonArgs :
        /\ Serve("escalate_ticket", args,
                 escalate_ticket(args, Request, clock))
        /\ UNCHANGED <<clock, ticks>>

Next ==
    \/ Tick
    \/ IdentifyCustomer
    \/ GetCompanyInfo
    \/ CreateTicket
    \/ AddTicketNote
    \/ GetTicketSummary
    \/ EscalateTicket

Spec == Init /\ [][Next]_vars

\* the session at any hour of the day, with the calls that read the seeded data
NextAnyHour ==
    \/ Tick
    \/ IdentifyCustomer
    \/ GetCompanyInfo

SpecAnyHour == InitAnyHour /\ [][NextAnyHour]_vars

\* instants of construction shortly before the turn of a second, of a minute
\* and of the year
TicketTimes ==
    { [year |-> 1999, month |-> 12, day |-> 31, hour |-> 23, minute |-> 59,
       second |-> 58, microsecond |-> 500000],
      [year |-> 1999, month |-> 12, day |-> 31, hour |-> 23, minute |-> 59,
       second |-> 59, microsecond |-> 0],
      [year |-> 1999, month |-> 12, day |-> 31, hour |-> 23, minute |-> 59,
       second |-> 59, microsecond |-> 500000] }

InitTickets == \E t \in TicketTimes : Constructed(t)

\* the calls that decide what create_ticket is given, and the clock
NextTickets ==
    \/ Tick
    \/ IdentifyCustomer
    \/ CreateTicket
    \/ AddTicketNote

SpecTickets == InitTickets /\ [][NextTickets]_vars

\* the tools the agent registers
ToolNames ==
    {"identify_customer", "get_company_info", "create_ticket",
     "add_ticket_note", "get_ticket_summary", "escalate_ticket"}

\* the handler registered under name, run on args and raw_data
Dispatch(name, args, rd, agd, now, later) ==
    CASE name = "identify_customer" -> identify_customer(args, rd, agd)
      [] name = "get_company_info" -> get_company_info(args, rd, agd)
      [] name = "create_ticket" -> create_ticket(args, rd, now, later)
      [] name = "add_ticket_note" -> add_ticket_note(args, rd, now)
      [] name = "get_ticket_summary" -> get_ticket_summary(args, rd)
      [] name = "escalate_ticket" -> escalate_ticket(args, rd, now)

\* any argument mapping: the declared parameter with a value, or no key at all
AnyArgs(name) ==
    {EmptyDict}
      \cup CASE name = "identify_customer" -> Args("phone", {"+15551234567"})
             [] name = "create_ticket" -> Args("issue", {"login failure"})
             [] name = "add_ticket_note" -> Args("note", {"A"})
             [] name = "escalate_ticket" ->
                  Args("reason", {"unresolved after 3 days"})
             [] OTHER -> {}

\* any raw_data: none or empty (both {} after `raw_data or {}`), one with an
\* empty global_data, and the host's request with the session's global data
AnyRawData == {EmptyDict, [k \in {"global_data"} |-> EmptyDict], Request}

\* the host, or any other caller, calls a tool with any arguments and
\* raw_data; no time passes within the call
ServeAnyRequest ==
    \E name \in ToolNames, rd \in AnyRawData :
        \E args \in AnyArgs(name) :
            /\ name = "add_ticket_note"
                 => Len(Get(SnapshotOf(rd), "ticket_notes", <<>>)) < MaxNotes
            /\ Serve(name, args,
                     Dispatch(name, args, rd, agent_global_data, clock, clock))
            /\ UNCHANGED <<clock, ticks>>

\* the calls alone: the clock has no part in whether a call raises
NextAnyRequest == ServeAnyRequest

SpecAnyRequest == Init /\ [][NextAnyRequest]_vars

----------------------------------------------------------------------------
(* Reading the last call *)

\* the last call returned an update of the global data
HasPatch == result.action # <<>>

\* the dictionary the last call asked the host to merge
Patch == result.action[1].set_global_data

\* the global data the handler of the last call was given, as it is now
Snapshot == raw_data["global_data"]

Digits == {"0", "1", "2", "3", "4", "5", "6", "7", "8", "9"}

DigitValue(c) ==
    CASE c = "0" -> 0 [] c = "1" -> 1 [] c = "2" -> 2 [] c = "3" -> 3
      [] c = "4" -> 4 [] c = "5" -> 5 [] c = "6" -> 6 [] c = "7" -> 7
      [] c = "8" -> 8 [] c = "9" -> 9

\* the number a sequence of digits writes
RECURSIVE Number(_)
Number(ds) ==
    IF ds = <<>> THEN 0
    ELSE 10 * Number(SubSeq(ds, 1, Len(ds) - 1)) + DigitValue(ds[Len(ds)])

\* piece occurs in text, as consecutive tokens
Contains(text, piece) ==
    \E i \in 0..(Len(text) - Len(piece)) :
        SubSeq(text, i + 1, i + Len(piece)) = piece

\* the digits that stand right before the last token of text
RECURSIVE DigitsBefore(_, _)
DigitsBefore(text, i) ==
    IF i >= 1 /\ text[i] \in Digits
    THEN DigitsBefore(text, i - 1) \o <<text[i]>>
    ELSE <<>>

TrailingDigits(text) == DigitsBefore(text, Len(text) - 1)

IsPrefix(s, t) == Len(s) <= Len(t) /\ SubSeq(t, 1, Len(s)) = s

----------------------------------------------------------------------------
(* C1: identify_customer with a phone number of the CUSTOMERS table        *)
(* answers with a text holding that customer's name and tier and returns   *)
(* a patch of exactly customer_id, customer_name, customer_tier (the       *)
(* fields of that record) and identified = TRUE, whatever the global data. *)

C1_IdentifyKnown ==
    (call.name = "identify_customer"
       /\ Get(call.args, "phone", "") \in DOMAIN CUSTOMERS)
    => LET customer == CUSTOMERS[call.args["phone"]]
       IN  /\ Contains(result.response, <<customer.name>>)
           /\ Contains(result.response, <<customer.tier>>)
           /\ Len(result.action) = 1
           /\ DOMAIN Patch = {"customer_id", "customer_name",
                              "customer_tier", "identified"}
           /\ Patch["customer_id"] = customer.id
           /\ Patch["customer_name"] = customer.name
           /\ Patch["customer_tier"] = customer.tier
           /\ Patch["identified"] = TRUE
           /\ global_data["customer_id"] = customer.id
           /\ global_data["customer_name"] = customer.name
           /\ global_data["customer_tier"] = customer.tier
           /\ global_data["identified"] = TRUE

\* Jane Doe is identified after Bob Wilson was, with a ticket open
C1_Witness ==
    /\ call.name = "identify_customer"
    /\ call.args = [k \in {"phone"} |-> "+15559876543"]
    /\ Get(prev_global_data, "customer_name", "") = "Bob Wilson"
    /\ "ticket_id" \in DOMAIN prev_global_data
    /\ global_data["customer_name"] = "Jane Doe"
    /\ global_data["customer_tier"] = "silver"

----------------------------------------------------------------------------
(* C2: identify_customer with a phone that is no key of CUSTOMERS, or with *)
(* no phone argument, returns the fallback text and no patch: the global   *)
(* data is after the call what it was before it.                           *)

C2_IdentifyUnknown ==
    (call.name = "identify_customer"
       /\ Get(call.args, "phone", "") \notin DOMAIN CUSTOMERS)
    => /\ result.response =
            <<"I don't recognize that number. Could you provide your account ID?">>
       /\ ~HasPatch
       /\ global_data = prev_global_data
       /\ Snapshot = prev_global_data

\* a call without a phone argument, in a session that identified a customer
C2_Witness ==
    /\ call.name = "identify_customer"
    /\ call.args = EmptyDict
    /\ Get(prev_global_data, "identified", FALSE)
    /\ Get(global_data, "customer_id", "") = "C001"

----------------------------------------------------------------------------
(* C3: without a ticket_id in the global data, add_ticket_note,            *)
(* escalate_ticket and get_ticket_summary each return their fallback text  *)
(* and no patch, and leave the global data and the snapshot they were      *)
(* given as they were.                                                     *)

C3_NoTicketShortCircuit ==
    (call.name \in {"add_ticket_note", "escalate_ticket", "get_ticket_summary"}
       /\ "ticket_id" \notin DOMAIN prev_global_data)
    => /\ result.response =
            CASE call.name = "add_ticket_note" ->
                   <<"No ticket found. Would you like me to create one?">>
              [] call.name = "escalate_ticket" ->
                   <<"No ticket to escalate. Let me create one first.">>
              [] call.name = "get_ticket_summary" ->
                   <<"No active ticket.">>
       /\ ~HasPatch
       /\ global_data = prev_global_data
       /\ Snapshot = prev_global_data

\* a note is offered before any ticket exists, by an identified customer
C3_Witness ==
    /\ call.name = "add_ticket_note"
    /\ call.args = [k \in {"note"} |-> "A"]
    /\ "ticket_id" \notin DOMAIN prev_global_data
    /\ Get(prev_global_data, "identified", FALSE)

----------------------------------------------------------------------------
(* C4: with a ticket_id set, add_ticket_note(note) leaves as ticket_notes  *)
(* the former ticket_notes followed by exactly one new entry whose content *)
(* is note, and the count its text reports is the new length: one more     *)
(* than the former length, so it grows by one with each such call.         *)

C4_AddNoteAppends ==
    (call.name = "add_ticket_note" /\ ~NoTicket(prev_global_data))
    => LET before == prev_global_data["ticket_notes"]
           after == global_data["ticket_notes"]
       IN  /\ HasPatch
           /\ DOMAIN Patch = {"ticket_notes"}
           /\ Patch["ticket_notes"] = after
           /\ Len(after) = Len(before) + 1
           /\ SubSeq(after, 1, Len(before)) = before
           /\ after[Len(after)].content = Get(call.args, "note", "")
           /\ Contains(result.response, <<"Total notes: ">>)
           /\ TrailingDigits(result.response) # <<>>
           /\ Number(TrailingDigits(result.response)) = Len(after)
           /\ Number(TrailingDigits(result.response)) = Len(before) + 1

\* note "B" is added after note "A"
C4_Witness ==
    /\ call.name = "add_ticket_note"
    /\ call.args = [k \in {"note"} |-> "B"]
    /\ "ticket_notes" \in DOMAIN prev_global_data
    /\ Len(prev_global_data["ticket_notes"]) = 1
    /\ prev_global_data["ticket_notes"][1].content = "A"
    /\ Len(global_data["ticket_notes"]) = 2
    /\ global_data["ticket_notes"][2].content = "B"
    /\ Number(TrailingDigits(result.response)) = 2

----------------------------------------------------------------------------
(* C5, as claimed: once ticket_notes exists, its value before any call is  *)
(* a prefix of its value after the call.                                   *)

C5_AppendOnlyInSession ==
    "ticket_notes" \in DOMAIN prev_global_data
    => /\ "ticket_notes" \in DOMAIN global_data
       /\ IsPrefix(prev_global_data["ticket_notes"],
                   global_data["ticket_notes"])

(* C5, amended: ticket_notes is append-only within a ticket.  Every call   *)
(* other than create_ticket leaves the former ticket_notes as a prefix of  *)
(* the new one; create_ticket starts a new ticket, whose ticket_notes is   *)
(* the empty list whatever the former notes were.                          *)

C5_AppendOnlyInTicket ==
    /\ ("ticket_notes" \in DOMAIN prev_global_data
          /\ call.name # "create_ticket")
       => /\ "ticket_notes" \in DOMAIN global_data
          /\ IsPrefix(prev_global_data["ticket_notes"],
                      global_data["ticket_notes"])
    /\ call.name = "create_ticket" => global_data["ticket_notes"] = <<>>

\* a second note is added to an escalated ticket that has one
C5_Witness ==
    /\ call.name = "add_ticket_note"
    /\ "ticket_notes" \in DOMAIN prev_global_data
    /\ "escalated" \in DOMAIN prev_global_data
    /\ Len(prev_global_data["ticket_notes"]) = 1
    /\ Len(global_data["ticket_notes"]) = 2

----------------------------------------------------------------------------
(* C6: create_ticket, whatever its issue argument and the global data,     *)
(* returns a patch whose ticket_id is "TKT-" followed by 14 digits that    *)
(* write the year, month, day, hour, minute and second of the current      *)
(* time, whose ticket_issue is the issue argument, whose ticket_notes is   *)
(* the empty list, and which sets ticket_created.                          *)

C6_CreateTicket ==
    call.name = "create_ticket"
    => LET id == Patch["ticket_id"]
           field(i, j) == Number(SubSeq(id, i, j))
       IN  /\ Len(result.action) = 1
           /\ DOMAIN Patch = {"ticket_id", "ticket_issue", "ticket_notes",
                              "ticket_created"}
           /\ Len(id) = 15
           /\ id[1] = "TKT-"
           /\ \A i \in 2..15 : id[i] \in Digits
           /\ field(2, 5) = call.at.year
           /\ field(6, 7) = call.at.month
           /\ field(8, 9) = call.at.day
           /\ field(10, 11) = call.at.hour
           /\ field(12, 13) = call.at.minute
           /\ field(14, 15) = call.at.second
           /\ Patch["ticket_issue"] = Get(call.args, "issue", "")
           /\ Patch["ticket_notes"] = <<>>
           /\ Len(Patch["ticket_created"]) \in {19, 26}
           /\ global_data["ticket_id"] = id

\* a second ticket is created at midnight of new year's day, by an identified
\* customer whose first ticket has a note
C6_Witness ==
    /\ call.name = "create_ticket"
    /\ call.args = [k \in {"issue"} |-> "login failure"]
    /\ call.at.year = 2000 /\ call.at.second = 0
    /\ Get(prev_global_data, "identified", FALSE)
    /\ Len(Get(prev_global_data, "ticket_notes", <<>>)) > 0
    /\ global_data["ticket_id"] # prev_global_data["ticket_id"]

----------------------------------------------------------------------------
(* C7: in every state of a session, if one of ticket_issue, ticket_notes,  *)
(* ticket_created, escalated, escalation_reason, escalation_time is in the *)
(* global data, then ticket_id is, and it is not empty.                    *)

C7_TicketFieldsNeedTicketId ==
    (DOMAIN global_data
       \cap {"ticket_issue", "ticket_notes", "ticket_created", "escalated",
             "escalation_reason", "escalation_time"} # {})
    => /\ "ticket_id" \in DOMAIN global_data
       /\ global_data["ticket_id"] # <<>>
       /\ Len(global_data["ticket_id"]) > 0

\* an escalated ticket with a note
C7_Witness ==
    /\ "escalated" \in DOMAIN global_data
    /\ Len(Get(global_data, "ticket_notes", <<>>)) > 0
    /\ call.name = "escalate_ticket"

----------------------------------------------------------------------------
(* C8: for the hour h read at construction, the seeded greeting is         *)
(* "Good morning" when h < 12, "Good afternoon" when 12 <= h < 17 and      *)
(* "Good evening" when h >= 17, and is_business_hours is true exactly when *)
(* 9 <= h < 18.                                                            *)

C8_GreetingByHour ==
    /\ hour \in 0..23
    /\ hour < 12 => global_data["greeting"] = "Good morning"
    /\ (12 <= hour /\ hour < 17) => global_data["greeting"] = "Good afternoon"
    /\ hour >= 17 => global_data["greeting"] = "Good evening"
    /\ global_data["is_business_hours"] = (9 <= hour /\ hour < 18)
    /\ agent_global_data["greeting"] = global_data["greeting"]
    /\ agent_global_data["is_business_hours"] = global_data["is_business_hours"]

\* constructed at 17 h: evening already, business hours still; a customer is
\* greeted so after the clock has moved on to 18 h
C8_Witness ==
    /\ hour = 17
    /\ clock.hour = 18
    /\ call.name = "identify_customer"
    /\ HasPatch
    /\ result.response[1] = "Good evening"
    /\ global_data["is_business_hours"] = TRUE

----------------------------------------------------------------------------
(* C9: after create_ticket(issue) and then exactly k add_ticket_note calls *)
(* that added a note, with any other calls but create_ticket in between,   *)
(* get_ticket_summary answers with that ticket's ticket_id, its issue and  *)
(* "k note(s)".                                                            *)

C9_SummaryReportsTicket ==
    (call.name = "get_ticket_summary" /\ ticket_log.created)
    => /\ Contains(result.response, <<"Ticket ">> \o ticket_log.ticket_id)
       /\ Contains(result.response, <<": ", ticket_log.issue, ". ">>)
       /\ TrailingDigits(result.response) # <<>>
       /\ Number(TrailingDigits(result.response)) = ticket_log.added
       /\ result.response[Len(result.response)] = " note(s) added."

\* the summary of a ticket with two notes, identified and escalated meanwhile
C9_Witness ==
    /\ call.name = "get_ticket_summary"
    /\ ticket_log.created
    /\ ticket_log.added = 2
    /\ ticket_log.issue = "login failure"
    /\ "escalated" \in DOMAIN global_data
    /\ Get(global_data, "identified", FALSE)

----------------------------------------------------------------------------
(* C10, as claimed: add_ticket_note with a ticket_id set leaves the        *)
(* ticket_notes list inside the snapshot it was given as it was; the new   *)
(* note is only in the returned patch.                                     *)

C10_SnapshotUntouched ==
    (call.name = "add_ticket_note" /\ ~NoTicket(prev_global_data))
    => /\ Snapshot["ticket_notes"] = prev_global_data["ticket_notes"]
       /\ Snapshot = prev_global_data

----------------------------------------------------------------------------
(* C11: no call raises.  Each of the six tools, called in any order with   *)
(* any argument mapping (the expected key missing included) and any        *)
(* raw_data (none, empty, with an empty global_data, or the session's),    *)
(* completes and returns a result with a response text.                    *)

C11_NoCallRaises ==
    call.name # ""
    => /\ "raised" \notin DOMAIN result
       /\ "response" \in DOMAIN result
       /\ result.response # <<>>

\* get_company_info answers without any raw_data, in a session with a ticket
C11_Witness ==
    /\ call.name = "get_company_info"
    /\ raw_data = EmptyDict
    /\ "ticket_id" \in DOMAIN global_data
    /\ "response" \in DOMAIN result
    /\ Contains(result.response, <<"You've reached ", "TechCorp">>)

----------------------------------------------------------------------------
(* C12: with a ticket_id set, escalate_ticket(reason) returns a patch of   *)
(* exactly escalated = TRUE, escalation_reason = reason and                *)
(* escalation_time, so that after the merge every other key of the global  *)
(* data (the ticket's, the customer's, the configuration's) is unchanged.  *)

EscalationKeys == {"escalated", "escalation_reason", "escalation_time"}

C12_EscalatePatch ==
    (call.name = "escalate_ticket" /\ "ticket_id" \in DOMAIN prev_global_data)
    => /\ Len(result.action) = 1
       /\ DOMAIN Patch = EscalationKeys
       /\ Patch["escalated"] = TRUE
       /\ Patch["escalation_reason"] = Get(call.args, "reason", "")
       /\ Len(Patch["escalation_time"]) \in {19, 26}
       /\ Number(SubSeq(Patch["escalation_time"], 18, 19)) = call.at.second
       /\ DOMAIN global_data = DOMAIN prev_global_data \cup EscalationKeys
       /\ \A k \in DOMAIN prev_global_data \ EscalationKeys :
              global_data[k] = prev_global_data[k]
       /\ \A k \in EscalationKeys : global_data[k] = Patch[k]

\* the ticket of an identified customer, with a note, is escalated
C12_Witness ==
    /\ call.name = "escalate_ticket"
    /\ call.args = [k \in {"reason"} |-> "unresolved after 3 days"]
    /\ Get(prev_global_data, "identified", FALSE)
    /\ Len(Get(prev_global_data, "ticket_notes", <<>>)) > 0
    /\ Get(global_data, "escalation_reason", "") = "unresolved after 3 days"
    /\ Len(global_data["ticket_notes"]) > 0

----------------------------------------------------------------------------
(* C13: get_company_info and get_ticket_summary are read-only: in every    *)
(* state, with a ticket or without, with a customer identified or not,     *)
(* they return no patch and the global data is unchanged by the call.      *)

C13_ReadOnly ==
    call.name \in {"get_company_info", "get_ticket_summary"}
    => /\ "response" \in DOMAIN result
       /\ ~HasPatch
       /\ global_data = prev_global_data
       /\ Snapshot = prev_global_data

\* the summary of the ticket of an identified customer
C13_Witness ==
    /\ call.name = "get_ticket_summary"
    /\ "ticket_id" \in DOMAIN prev_global_data
    /\ Get(prev_global_data, "identified", FALSE)
    /\ Contains(result.response, <<"Ticket ", "TKT-">>)

----------------------------------------------------------------------------
(* C14: company_name, support_email, support_phone, business_hours,        *)
(* is_business_hours and greeting keep in every state of a session the     *)
(* values they were seeded with: no patch holds any of these keys.         *)

ConfigurationKeys ==
    {"company_name", "support_email", "support_phone", "business_hours",
     "is_business_hours", "greeting"}

C14_ConfigurationKept ==
    /\ ConfigurationKeys \subseteq DOMAIN global_data
    /\ global_data["company_name"] = "TechCorp"
    /\ global_data["support_email"] = "support@techcorp.com"
    /\ global_data["support_phone"] = "1-800-TECH"
    /\ global_data["business_hours"] = "9 AM to 6 PM EST"
    /\ \A k \in ConfigurationKeys : global_data[k] = agent_global_data[k]
    /\ \A k \in ConfigurationKeys : global_data[k] = prev_global_data[k]
    /\ HasPatch => DOMAIN Patch \cap ConfigurationKeys = {}

\* seeded at 23 h, the greeting is still the evening's after midnight, once a
\* customer was identified and a ticket created, noted and escalated
C14_Witness ==
    /\ hour = 23
    /\ clock.hour = 0
    /\ global_data["greeting"] = "Good evening"
    /\ Get(global_data, "identified", FALSE)
    /\ "escalated" \in DOMAIN global_data
    /\ Len(Get(global_data, "ticket_notes", <<>>)) > 0

----------------------------------------------------------------------------
(* C15: whenever identified is true, customer_id, customer_name and        *)
(* customer_tier are the fields of one single CUSTOMERS record, that of    *)
(* the last identify_customer call that found a customer; and identified,  *)
(* once true, stays true, also after an identify_customer call with an     *)
(* unknown phone.                                                          *)

C15_CustomerConsistent ==
    /\ Get(global_data, "identified", FALSE)
       => /\ session_log.phone \in DOMAIN CUSTOMERS
          /\ Get(global_data, "customer_id", "")
               = CUSTOMERS[session_log.phone].id
          /\ Get(global_data, "customer_name", "")
               = CUSTOMERS[session_log.phone].name
          /\ Get(global_data, "customer_tier", "")
               = CUSTOMERS[session_log.phone].tier
    /\ session_log.phone # "" => Get(global_data, "identified", FALSE)
    /\ Get(prev_global_data, "identified", FALSE)
       => Get(global_data, "identified", FALSE)

\* an unknown number is given after Jane Doe was identified
C15_Witness ==
    /\ call.name = "identify_customer"
    /\ call.args = [k \in {"phone"} |-> "+15550000000"]
    /\ session_log.phone = "+15559876543"
    /\ Get(global_data, "customer_tier", "") = "silver"
    /\ Get(prev_global_data, "identified", FALSE)
    /\ Get(global_data, "identified", FALSE)

----------------------------------------------------------------------------
(* C16: once escalate_ticket has returned its patch, escalated is true and *)
(* escalation_reason and escalation_time keep the values of that patch in  *)
(* every later state, until the next escalate_ticket call that returns     *)
(* one; also after a create_ticket call that replaces the ticket.          *)

C16_EscalationKept ==
    /\ DOMAIN session_log.escalation # {}
       => /\ EscalationKeys \subseteq DOMAIN global_data
          /\ global_data["escalated"] = TRUE
          /\ global_data["escalation_reason"]
               = session_log.escalation["escalation_reason"]
          /\ global_data["escalation_time"]
               = session_log.escalation["escalation_time"]
    /\ DOMAIN session_log.escalation = {}
       => DOMAIN global_data \cap EscalationKeys = {}

\* a new ticket is created, a second later, after the first was escalated
C16_Witness ==
    /\ call.name = "create_ticket"
    /\ "escalated" \in DOMAIN prev_global_data
    /\ global_data["ticket_id"] # prev_global_data["ticket_id"]
    /\ global_data["ticket_notes"] = <<>>
    /\ global_data["escalated"] = TRUE
    /\ global_data["escalation_reason"] = "unresolved after 3 days"

----------------------------------------------------------------------------
(* C17: the ticket_id is a function of the clock reading to the second,    *)
(* and of nothing else: of any two create_ticket calls of a session, those *)
(* made within the same second return the same ticket_id and those made in *)
(* different seconds return different ones, whatever the issue, the        *)
(* customer and the state of the session.                                  *)

C17_TicketIdBySecond ==
    \A a, b \in ticket_log.tickets :
        (a.second = b.second) <=> (a.ticket_id = b.ticket_id)

\* two tickets of one session, created half a second apart within one second
\* for different issues, with one ticket_id
C17_Witness ==
    /\ call.name = "create_ticket"
    /\ call.at.microsecond = 500000
    /\ "ticket_id" \in DOMAIN prev_global_data
    /\ global_data["ticket_id"] = prev_global_data["ticket_id"]
    /\ global_data["ticket_created"] # prev_global_data["ticket_created"]
    /\ global_data["ticket_issue"] # prev_global_data["ticket_issue"]
    /\ Cardinality(ticket_log.tickets) = 1

====
